---- MODULE Spec2Model ----
(***************************************************************************)
(* A model of my-site/src/App.tsx: the photo gallery (ImageGallery), the   *)
(* typewriter code playground (CodePlayground) and the page root (App and  *)
(* PersonalSite: background URL and scroll-to-section navigation).         *)
(*                                                                         *)
(* A state of the model is a committed render: every action is one event   *)
(* handler, timer callback or effect run together with the re-render its   *)
(* state updates cause.                                                    *)
(***************************************************************************)
EXTENDS Integers, Sequences, FiniteSets, TLC

VARIABLES
    page,           \* which default export is mounted: "App" or "PersonalSite"
    galleryActive,  \* ImageGallery: const [active, setActive]
    items,          \* ImageGallery: const [items, setItems]
    files,          \* e.target.files of the latest change event of the file input
    created,        \* number of URLs URL.createObjectURL has handed out
    languages,      \* CodePlayground: the languages prop
    active,         \* CodePlayground: const [active, setActive]
    typed,          \* CodePlayground: const [typed, setTyped]
    mounted,        \* CodePlayground is mounted
    effectPending,  \* a render changed [active, full]; the effect has not run yet
    live,           \* the intervals setInterval started and nobody cleared,
                    \* each with the i and full its callback closes over
    effectId,       \* the id the cleanup of the latest effect run holds (0: none)
    baseUrl,        \* import.meta.env.BASE_URL
    bgUrl,          \* App: const [bgUrl, setBgUrl]
    entered,        \* the section whose onViewportEnter fired last ("none": none yet)
    scrollY         \* window.scrollY

galleryVars == <<galleryActive, items, files, created>>

playgroundVars == <<languages, active, typed, mounted, effectPending, live, effectId>>

rootVars == <<baseUrl, bgUrl, entered, scrollY>>

vars == <<page, galleryVars, playgroundVars, rootVars>>

(***************************************************************************)
(* Bounds of the model.                                                    *)
(***************************************************************************)
\* the longest photo list explored
MaxItems == 9
\* the most files one selection of the file picker holds
MaxFiles == 2

\* the most ticks explored of an interval whose callback throws on every tick
MaxFailedTicks == 3

\* the height of the browser window, in pixels
ViewportH == 600
\* the height of a block of PersonalSite, whose sections are as tall as their content
BlockH == 250
\* the height of the page footer
FooterH == 120

\* the longest photo list and the furthest reveal explored where the gallery
\* and the playground run side by side
SiteMaxItems == 7
SiteMaxTicks == 2

\* names of the local files the user can pick
FileNames == {"a.png", "b.png"}

\* the value of an optional property that is not set
Undefined == "<undefined>"

Range(s) == {s[n] : n \in 1..Len(s)}

Pages == {"App", "PersonalSite"}

(***************************************************************************)
(* Gallery                                                                 *)
(***************************************************************************)
Photo(src, alt, tag) == [src |-> src, alt |-> alt, tag |-> tag]

\* the size parameter of the starter photo URLs differs between the two pages
StarterWidth(pg) == IF pg = "App" THEN "2000" ELSE "1200"

starterPhotos(pg) ==
    LET U(id) == "https://images.unsplash.com/photo-" \o id \o "?w=" \o StarterWidth(pg)
    IN  << Photo(U("1500530855697-b586d89ba3ee"), "Night city", "Travel"),
           Photo(U("1534796636912-3b95b3ab5986"), "Laptop", "Coding"),
           Photo(U("1466979939565-131c4b39a51a"), "Mountains", "Travel"),
           Photo(U("1540189549336-e6e99c3679fe"), "Ramen", "Food"),
           Photo(U("1606112219348-204d7d8b94ee"), "Controller", "Games"),
           Photo(U("1514511542834-2c7d65b85732"), "Burger", "Food") >>

\* the tags prop both pages pass to ImageGallery
tags == <<"Travel", "Food", "Games", "Coding">>

\* buttons for the tags alone
FilterButtonsTagsOnly == tags

\* the filter buttons: ["All", ...tags]
FilterButtons == <<"All">> \o tags

\* a filter that lets photos without a tag through
FilteredKeepsUntagged(its, act) ==
    IF act = "All" THEN its
    ELSE SelectSeq(its, LAMBDA p : p.tag = act \/ p.tag = Undefined)

\* const filtered = active === "All" ? items : items.filter((p) => p.tag === active)
Filtered(its, act) ==
    IF act = "All" THEN its ELSE SelectSeq(its, LAMBDA p : p.tag = act)

\* the list the gallery renders
filtered == Filtered(items, galleryActive)

\* URL.createObjectURL(f): a fresh blob URL on every call, whatever the file
createObjectURL(f, n) == "blob:" \o ToString(n)

\* a map that walks the selection from its end
NewOnesReversed(fs, act, n) ==
    [j \in 1..Len(fs) |->
        Photo(createObjectURL(fs[Len(fs) + 1 - j], n + j), fs[Len(fs) + 1 - j],
              IF act = "All" THEN Undefined ELSE act)]

\* files.map((f) => ({ src: URL.createObjectURL(f), alt: f.name,
\*                     tag: active === "All" ? undefined : active }))
NewOnes(fs, act, n) ==
    [j \in 1..Len(fs) |->
        Photo(createObjectURL(fs[j], n + j), fs[j],
              IF act = "All" THEN Undefined ELSE act)]

\* an update that skips the files whose name the list already holds
PrependSkipsKnown(newOnes, prev) ==
    SelectSeq(newOnes, LAMBDA p : \A q \in Range(prev) : q.alt # p.alt) \o prev

\* setItems((prev) => [...newOnes, ...prev])
Prepend(newOnes, prev) == newOnes \o prev

\* what the file picker can hand over: up to MaxFiles distinct files, in order
FileSelections ==
    UNION { { fs \in [1..k -> FileNames] : \A a, b \in 1..k : a # b => fs[a] # fs[b] }
            : k \in 0..MaxFiles }

\* a handler that also narrows the list to the selected category
SetActiveNarrowsItems(t) ==
    /\ galleryActive' = t
    /\ items' = Filtered(items, t)
    /\ UNCHANGED <<page, files, created, playgroundVars, rootVars>>

\* onClick={() => setActive(t)} of a filter button
SetActive(t) ==
    /\ galleryActive' = t
    /\ UNCHANGED <<page, items, files, created, playgroundVars, rootVars>>

\* onAddFiles: the change event of the file input
onAddFiles(fs) ==
    /\ Len(items) + Len(fs) <= MaxItems
    /\ files' = fs
    /\ created' = created + Len(fs)
    /\ items' = Prepend(NewOnes(fs, galleryActive, created), items)
    /\ UNCHANGED <<page, galleryActive, playgroundVars, rootVars>>

(***************************************************************************)
(* Code playground                                                         *)
(***************************************************************************)
\* a JavaScript value: a string, undefined, or some other object
Str(s) == [t |-> "string", s |-> s]
JsUndefined == [t |-> "undefined"]
JsObject == [t |-> "object"]

\* const samples: Record<string, string> = { ... }
samples ==
    [ Python |-> "print(\"Welcome to my website!\")",
      C |-> "#include <stdio.h>\nint main(){\n\tprintf(\"Welcome to my website!\\n\");\n\treturn 0;\n}",
      Java |-> "class Main {\n\tpublic static void main(String[] args){\n\t\tSystem.out.println(\"Welcome to my website!\");\n\t}\n}",
      Assembly |-> ".data\nmsg: .asciiz \"Welcome to my website!\"\n\n.text\n.globl main\nmain:\n\tli $v0,4\n\tla $a0,msg\n\tsyscall\n\tli $v0,10\n\tsyscall",
      Bash |-> "echo \"Welcome to my website!\"",
      Ruby |-> "puts \"Welcome to my website!\"",
      OCaml |-> "print_endline \"Welcome to my website!\";",
      Rust |-> "fn main(){\n\tprintln!(\"Welcome to my website!\");\n}",
      TypeScript |-> "console.log(\"Welcome to my website!\");",
      R |-> "print(\"Welcome to my website!\")",
      Matlab |-> "disp(\"Welcome to my website!\")",
      Racket |-> "#lang racket\n(displayln \"Welcome to my website!\")" ]

\* the sample after ?? in the definition of full
DefaultSample == "console.log(\"Welcome to my website!\");"

\* the properties an object literal inherits from Object.prototype
ObjectPrototypeKeys ==
    { "constructor", "toString", "toLocaleString", "valueOf", "hasOwnProperty",
      "isPrototypeOf", "propertyIsEnumerable", "__proto__" }

\* samples[key]: the own property, else the one inherited, else undefined
Get(obj, key) ==
    IF key \in DOMAIN obj THEN Str(obj[key])
    ELSE IF key \in ObjectPrototypeKeys THEN JsObject
    ELSE JsUndefined

\* a ?? b
Coalesce(a, b) == IF a = JsUndefined THEN b ELSE a

\* a lookup that ignores the map
FullAlwaysDefault(label) == Str(DefaultSample)

\* const full = samples[active] ?? `console.log("Welcome to my website!");`
Full(label) == Coalesce(Get(samples, label), Str(DefaultSample))

\* the languages prop App passes: "Python, C, ...".split(", ")
AppLanguages ==
    << "Python", "C", "Java", "Assembly", "Bash", "Ruby", "OCaml", "Rust",
       "TypeScript", "R", "Matlab", "Racket" >>

\* an initial label taken from the end of the list
InitialActiveLast(langs) ==
    IF Len(langs) > 0 /\ langs[Len(langs)] # "" THEN langs[Len(langs)] ELSE "TypeScript"

\* useState<string>(languages[0] || "TypeScript")
InitialActive(langs) ==
    IF Len(langs) > 0 /\ langs[1] # "" THEN langs[1] ELSE "TypeScript"

\* a slice that is one character too long
SliceOneMore(str, n) == SubSeq(str, 1, IF n + 1 < Len(str) THEN n + 1 ELSE Len(str))

\* full.slice(0, n) of a string, n >= 0
Slice(str, n) == SubSeq(str, 1, IF n < Len(str) THEN n ELSE Len(str))

\* setInterval's return value: an id no live interval has
FreshId(ivs) == CHOOSE n \in 1..(Cardinality(ivs) + 1) : \A t \in ivs : t.id # n

\* a clearInterval that clears nothing
clearIntervalNoop(ivs, id) == ivs

\* clearInterval(id)
clearInterval(ivs, id) == {t \in ivs : t.id # id}

\* the dependency list [active, full] of the effect
Deps(label) == <<label, Full(label)>>

\* a click that schedules the effect whatever the chip
ClickChipAlwaysRestarts(lang) ==
    /\ mounted /\ ~effectPending
    /\ active' = lang
    /\ effectPending' = TRUE
    /\ UNCHANGED <<page, galleryVars, rootVars, languages, typed, mounted, live, effectId>>

\* onClick={() => setActive(lang)} of a chip, and the render that follows.
\* Setting the state to its current value re-renders nothing.  React runs a
\* pending effect before it handles the next event, hence the guard.
ClickChip(lang) ==
    /\ mounted /\ ~effectPending
    /\ active' = lang
    /\ effectPending' = (Deps(lang) # Deps(active))
    /\ UNCHANGED <<page, galleryVars, rootVars, languages, typed, mounted, live, effectId>>

\* the effect: the cleanup of its previous run, then its body, then the render
\* setTyped("") causes.  React runs it after the render that changed the
\* dependencies has been committed, at the latest before the next update is
\* processed: a tick of the outgoing interval that comes first is this same step.
RunEffect ==
    /\ mounted /\ effectPending
    /\ LET cleaned == clearInterval(live, effectId)
           id == FreshId(cleaned)
       IN  /\ live' = cleaned \cup {[id |-> id, full |-> Full(active), i |-> 0]}
           /\ effectId' = id
    /\ typed' = ""
    /\ effectPending' = FALSE
    /\ UNCHANGED <<page, galleryVars, rootVars, languages, active, mounted>>

\* one firing of the callback of interval t: i++; setTyped(full.slice(0, i));
\* if (i >= full.length) clearInterval(id).  full.slice of a value that is no
\* string throws a TypeError, which ends the callback after i++.
Tick(t) ==
    /\ t \in live /\ ~effectPending
    /\ LET n == t.i + 1
       IN  IF t.full.t = "string"
           THEN /\ typed' = IF mounted THEN Slice(t.full.s, n) ELSE typed
                /\ live' = IF n >= Len(t.full.s)
                           THEN clearInterval(live, t.id)
                           ELSE (live \ {t}) \cup {[t EXCEPT !.i = n]}
           ELSE /\ t.i < MaxFailedTicks
                /\ typed' = typed
                /\ live' = (live \ {t}) \cup {[t EXCEPT !.i = n]}
    /\ UNCHANGED <<page, galleryVars, rootVars, languages, active, mounted, effectPending, effectId>>

\* the component is torn down: React runs the cleanup of the latest effect run
Unmount ==
    /\ mounted /\ ~effectPending
    /\ mounted' = FALSE
    /\ live' = clearInterval(live, effectId)
    /\ UNCHANGED <<page, galleryVars, rootVars, languages, active, typed, effectPending, effectId>>

\* PersonalSite renders no CodePlayground
InitPlayground(langs) ==
    /\ languages = langs
    /\ active = InitialActive(langs)
    /\ typed = ""
    /\ mounted = (page = "App")
    /\ effectPending = (page = "App")
    /\ live = {}
    /\ effectId = 0

(***************************************************************************)
(* Page root: background and navigation                                    *)
(***************************************************************************)
\* const asset = (p: string) => `${import.meta.env.BASE_URL}${p}`
asset(base, p) == base \o p

\* the base paths the site is built with
BaseUrls == {"/", "/website/"}

\* const sections = [...] of App and of PersonalSite
sections(pg) ==
    IF pg = "App"
    THEN <<"home", "code", "projects", "games", "travel", "gallery", "resume">>
    ELSE <<"home", "gallery", "code", "projects", "games", "food", "travel", "resume">>

\* scrollTo takes any id: the ids of both pages, so that each page is asked
\* for a section it does not have or has
SectionIds == Range(sections("App")) \cup Range(sections("PersonalSite"))

\* the bgUrl prop of each Section of App
SectionBg(base, s) ==
    CASE s = "home"     -> asset(base, "main.jpg")
      [] s = "code"     -> asset(base, "mac.jpg")
      [] s = "projects" -> "https://images.unsplash.com/photo-1517245386807-bb43f82c33c4?w=2400"
      [] s = "games"    -> "https://images.unsplash.com/photo-1511512578047-dfb367046420?w=2400"
      [] s = "travel"   -> "https://images.unsplash.com/photo-1466979939565-131c4b39a51a?w=2400"
      [] s = "gallery"  -> "https://images.unsplash.com/photo-1500530855697-b586d89ba3ee?w=2400"
      [] s = "resume"   -> "https://images.unsplash.com/photo-1484417894907-623942c8ee29?w=2400"

\* a setter that drops its argument
setBgKeepsFirst(old, u) == old

\* const setBg = (u: string) => setBgUrl(u): the new value of bgUrl
setBg(old, u) == u

\* onViewportEnter={() => onActivate?.(bgUrl)} of a Section of App
Activate(s) ==
    /\ page = "App"
    /\ s \in Range(sections(page))
    /\ bgUrl' = setBg(bgUrl, SectionBg(baseUrl, s))
    /\ entered' = s
    /\ UNCHANGED <<page, galleryVars, playgroundVars, baseUrl, scrollY>>

\* const HEADER_H = 56; // h-14
HEADER_H == 56

\* the height of a section: min-h-screen in App, its content in PersonalSite
SectionHeight(pg) == IF pg = "App" THEN ViewportH ELSE BlockH

\* the distance of section s from the top of the document: the blocks before
\* it, below the padding of main (pt-14, App) or the sticky header (h-14,
\* PersonalSite)
IndexOf(seq, x) == CHOOSE n \in 1..Len(seq) : seq[n] = x

Top(pg, s) == HEADER_H + (IndexOf(sections(pg), s) - 1) * SectionHeight(pg)

DocHeight(pg) == HEADER_H + Len(sections(pg)) * SectionHeight(pg) + FooterH

\* the browser scrolls no further than the document reaches
Clamp(pg, y) ==
    LET most == IF DocHeight(pg) > ViewportH THEN DocHeight(pg) - ViewportH ELSE 0
    IN  IF y < 0 THEN 0 ELSE IF y > most THEN most ELSE y

\* App.scrollTo: document.getElementById(id), if (!el) return,
\* y = el.getBoundingClientRect().top + window.scrollY - HEADER_H,
\* window.scrollTo({ top: y }).  The result is scrollY once the scroll has ended.
scrollToById(id, y) ==
    IF id \notin Range(sections("App")) THEN y
    ELSE LET rectTop == Top("App", id) - y
         IN  Clamp("App", rectTop + y - HEADER_H)

\* useScrollRefs.scrollTo: refs.get(id)?.current?.scrollIntoView(), which
\* aligns the top of the element with the top of the viewport
scrollToByRef(id, y) ==
    IF id \notin Range(sections("PersonalSite")) THEN y
    ELSE Clamp("PersonalSite", Top("PersonalSite", id))

\* a click on a navigation entry
ScrollTo(id) ==
    /\ scrollY' = IF page = "App" THEN scrollToById(id, scrollY)
                  ELSE scrollToByRef(id, scrollY)
    /\ UNCHANGED <<page, galleryVars, playgroundVars, baseUrl, bgUrl, entered>>

\* useState<string>(asset("main.jpg")); PersonalSite keeps no background
InitRoot ==
    /\ bgUrl = IF page = "App" THEN asset(baseUrl, "main.jpg") ELSE Undefined
    /\ entered = "none"
    /\ scrollY = 0

InitGallery ==
    /\ galleryActive = "All"
    /\ items = starterPhotos(page)
    /\ files = <<>>
    /\ created = 0

InitWith(pg, base, langs) ==
    /\ page = pg
    /\ baseUrl = base
    /\ InitGallery
    /\ InitPlayground(langs)
    /\ InitRoot

\* either page, as configured
Init == \E pg \in Pages : InitWith(pg, "/", AppLanguages)

\* the page App as it is configured
InitApp == InitWith("App", "/", AppLanguages)

\* either page, built with any of the base paths
InitPage == \E pg \in Pages, base \in BaseUrls : InitWith(pg, base, AppLanguages)

\* language lists CodePlayground can be given: the one of App, none, one with
\* a label that has no sample, one with a label Object.prototype defines
LanguageConfigs ==
    { AppLanguages, <<>>, <<"C++", "Python">>, <<"Ruby", "constructor">> }

InitLabels == \E langs \in LanguageConfigs : InitWith("App", "/", langs)

NextGallery ==
    \/ \E t \in Range(FilterButtons) : SetActive(t)
    \/ \E fs \in FileSelections : onAddFiles(fs)

NextPlayground ==
    \/ \E lang \in Range(languages) : ClickChip(lang)
    \/ RunEffect
    \/ \E t \in live : Tick(t)
    \/ Unmount

NextPage ==
    \/ \E id \in SectionIds : ScrollTo(id)
    \/ \E s \in SectionIds : Activate(s)

\* the gallery and the playground of App side by side, each explored to a
\* shorter depth
NextSite ==
    \/ \E t \in Range(FilterButtons) : SetActive(t)
    \/ \E fs \in FileSelections : Len(items) + Len(fs) <= SiteMaxItems /\ onAddFiles(fs)
    \/ \E lang \in Range(languages) : ClickChip(lang)
    \/ RunEffect
    \/ \E t \in live : t.i < SiteMaxTicks /\ Tick(t)
    \/ Unmount

SpecGallery == Init /\ [][NextGallery]_vars

SpecSite == InitApp /\ [][NextSite]_vars

SpecPage == InitPage /\ [][NextPage]_vars

SpecPlayground == InitApp /\ [][NextPlayground]_vars

SpecLabels == InitLabels /\ [][NextPlayground]_vars

\* the browser keeps firing a live interval, and React runs a scheduled effect
LivePlayground ==
    SpecPlayground /\ WF_vars(RunEffect) /\ WF_vars(\E t \in live : Tick(t))

(***************************************************************************)
(* Properties of the gallery, checked under SpecGallery                    *)
(***************************************************************************)
\* the positions of its whose photo carries tag c
TaggedAt(its, c) == {n \in 1..Len(its) : its[n].tag = c}

\* the j-th smallest member of a set of positions
Nth(S, j) == CHOOSE n \in S : Cardinality({m \in S : m <= n}) = j

\* the photos file selection fs yields, from its definition in the contract:
\* one entry per file, in selection order, tagged with the active category
\* unless that is "All"
IsAddOf(fs, act, front) ==
    /\ Len(front) = Len(fs)
    /\ \A j \in 1..Len(fs) :
          /\ front[j].alt = fs[j]
          /\ front[j].tag = IF act = "All" THEN Undefined ELSE act

\* C3: while category c is active the displayed list is exactly the photos of
\* the current list tagged c, in the order they have in the list (untagged
\* photos excluded); while "All" is active it is the whole list, in order.
C3_FilterExact ==
    /\ galleryActive = "All" => filtered = items
    /\ \A c \in Range(tags) :
          galleryActive = c =>
            /\ Len(filtered) = Cardinality(TaggedAt(items, c))
            /\ \A j \in 1..Len(filtered) : filtered[j] = items[Nth(TaggedAt(items, c), j)]

C3_Witness ==
    /\ galleryActive = "Food"
    /\ \E n \in 1..Len(items) : items[n].tag = Undefined
    /\ \E n \in 1..Len(items) : items[n].tag = "Food" /\ items[n].alt \in FileNames
    /\ Len(filtered) = 3
    /\ Len(items) = 8

\* C4: adding k files puts k new entries at the front, in selection order,
\* each tagged with the active category (untagged while "All" is active),
\* followed by all previous entries in their previous order.
C4_AddPrepends ==
    [][\A fs \in FileSelections :
          onAddFiles(fs) =>
            /\ Len(items') = Len(fs) + Len(items)
            /\ IsAddOf(fs, galleryActive, SubSeq(items', 1, Len(fs)))
            /\ SubSeq(items', Len(fs) + 1, Len(items')) = items]_vars

C4_Witness ==
    /\ Len(files) = 2
    /\ Len(items) = 9
    /\ items[1].alt = files[1] /\ items[2].alt = files[2]
    /\ items[1].tag = "Games" /\ items[2].tag = "Games"
    /\ items[3].tag = Undefined

\* C8: photos are never deduplicated: an add of k files lengthens the list by
\* exactly k even when the same files are already in it, every entry has a
\* source of its own, and no step removes or merges an entry.
C8_NoDedup ==
    /\ [][/\ \A fs \in FileSelections :
               onAddFiles(fs) => Len(items') = Len(items) + Len(fs)
           /\ Len(items') >= Len(items)
           /\ SubSeq(items', Len(items') - Len(items) + 1, Len(items')) = items]_vars
    /\ [](\A a, b \in 1..Len(items) : a # b => items[a].src # items[b].src)

C8_Witness ==
    \E a, b \in 1..Len(items) :
        /\ a # b
        /\ items[a].alt = items[b].alt
        /\ items[a].tag = items[b].tag
        /\ items[a].src # items[b].src

(***************************************************************************)
(* Properties of the code playground                                       *)
(***************************************************************************)
IsPrefix(a, b) == Len(a) <= Len(b) /\ SubSeq(b, 1, Len(a)) = a

\* the reveal of language L has run to its end
Revealed(L) == mounted /\ ~effectPending /\ active = L /\ typed = samples[L]

\* C1: in every render the displayed text is a prefix of the sample of the
\* language that render shows as active: no text of the language selected
\* before is left once another is selected.
C1_NoLeak == mounted => IsPrefix(typed, Full(active).s)

\* C2: once a language of the configured list is selected, the reveal
\* reaches its full sample unless another selection (or the teardown)
\* comes first, and a completed reveal stays as it is until the next
\* selection.
C2_RevealCompletes ==
    /\ \A L \in Range(AppLanguages) :
          (mounted /\ active = L) ~> (Revealed(L) \/ active # L \/ ~mounted)
    /\ [][\A L \in Range(AppLanguages) :
            (Revealed(L) /\ active' = L /\ mounted') => Revealed(L)']_vars

C2_Witness ==
    /\ Revealed("Assembly")
    /\ Len(typed) = Len(samples.Assembly)
    /\ live = {}

\* C5: a firing of the ticker lengthens the displayed text by exactly one
\* character while it is shorter than the full sample, never beyond the
\* sample's length, and leaves a complete text as it is; between two
\* language changes the text only grows.
C5_TickAdvances ==
    /\ [][\A t \in live :
            (Tick(t) /\ mounted) =>
              LET whole == Full(active).s
              IN  /\ Len(typed) < Len(whole) => Len(typed') = Len(typed) + 1
                  /\ Len(typed') <= Len(whole)
                  /\ typed = whole => typed' = typed]_vars
    /\ [][(mounted /\ ~effectPending /\ active' = active) => IsPrefix(typed, typed')]_vars

C5_Witness ==
    /\ mounted /\ ~effectPending
    /\ active = "Rust"
    /\ typed = "fn main(){\n\tprin"
    /\ \E t \in live : t.i = Len(typed) /\ t.full = Full(active)

\* C7: the lookup from label to sample is total: whatever the active label,
\* the text to reveal is a non-empty string, the default sample when the map
\* has no entry for the label, and the map's entry for every label of the
\* configured list.
C7_LookupTotal ==
    /\ Full(active).t = "string"
    /\ Len(Full(active).s) > 0
    /\ active \notin DOMAIN samples => Full(active) = Str(DefaultSample)
    /\ \A l \in Range(AppLanguages) : l \in DOMAIN samples /\ Full(l) = Str(samples[l])

\* C9: at the start the gallery holds the six starter photos in their order
\* with "All" active, and the playground shows the first label of its list,
\* or "TypeScript" when the list is empty, with nothing revealed yet.
C9_InitialState ==
    /\ /\ galleryActive = "All"
       /\ [n \in 1..Len(items) |-> items[n].alt]
            = <<"Night city", "Laptop", "Mountains", "Ramen", "Controller", "Burger">>
       /\ [n \in 1..Len(items) |-> items[n].tag]
            = <<"Travel", "Coding", "Travel", "Food", "Games", "Food">>
       /\ filtered = items
       /\ active = IF languages = <<>> THEN "TypeScript" ELSE languages[1]
       /\ typed = ""
    /\ [][TRUE]_vars

C9_Witness ==
    /\ languages = <<>>
    /\ active = "TypeScript"
    /\ typed = ""
    /\ effectId = 0 /\ live = {}
    /\ Len(items) = 6 /\ galleryActive = "All"

(***************************************************************************)
(* Properties of the page root, checked under SpecPage                     *)
(***************************************************************************)
\* C6: a click on the entry of a section the page has leaves the top of the
\* section exactly HEADER_H below the top of the viewport; a click on the
\* entry of a section the page lacks scrolls nothing.  On both pages.
C6_NavScroll ==
    [][\A id \in SectionIds :
          ScrollTo(id) =>
            IF id \in Range(sections(page))
            THEN Top(page, id) - scrollY' = HEADER_H
            ELSE scrollY' = scrollY]_vars

\* C10: the background URL of App is never blank: the default asset until a
\* section reports entering view, from then on the URL of the section that
\* reported last, one of the configured, non-empty URLs.
C10_Background ==
    page = "App" =>
      /\ bgUrl # ""
      /\ entered = "none" => bgUrl = baseUrl \o "main.jpg"
      /\ entered # "none" =>
           /\ bgUrl = SectionBg(baseUrl, entered)
           /\ bgUrl \in {SectionBg(baseUrl, s) : s \in Range(sections("App"))}
           /\ Len(bgUrl) > 0

C10_Witness ==
    /\ page = "App"
    /\ baseUrl = "/website/"
    /\ entered = "gallery"
    /\ bgUrl = "https://images.unsplash.com/photo-1500530855697-b586d89ba3ee?w=2400"

(***************************************************************************)
(* Cancellation of the reveal ticker, checked under SpecPlayground         *)
(***************************************************************************)
\* C11: at most one ticker is live; once the effect of a language change has
\* run, the only live ticker is the one it started for the active language;
\* a teardown leaves none; a ticker that has revealed its whole sample is
\* gone; and the displayed text changes only by the reset of the effect or
\* by a tick of the one live ticker, never by a ticker that was cancelled.
C11_TickerCancelled ==
    /\ [](Cardinality(live) <= 1)
    /\ []((mounted /\ ~effectPending) =>
             \A t \in live : t.id = effectId /\ t.full = Full(active))
    /\ [](~mounted => live = {})
    /\ [](\A t \in live : t.i < Len(t.full.s))
    /\ [][typed' # typed =>
            \/ effectPending /\ ~effectPending' /\ typed' = ""
            \/ \E t \in live :
                 /\ t.id = effectId /\ t.full = Full(active)
                 /\ typed' = SubSeq(t.full.s, 1, t.i + 1)]_vars

C11_Witness ==
    /\ mounted /\ ~effectPending
    /\ active = "Bash"
    /\ typed = "echo "
    /\ live = {[id |-> effectId, full |-> Full("Bash"), i |-> 5]}

(***************************************************************************)
(* The active filter, checked under SpecGallery                            *)
(***************************************************************************)
\* C12: the active filter is always "All" or one of the configured tags, and
\* in every reachable state the button "All" is there and selecting it makes
\* "All" the active filter.
C12_FilterValid ==
    /\ galleryActive \in {"All"} \cup Range(tags)
    /\ "All" \in Range(FilterButtons)
    /\ ENABLED (SetActive("All") /\ galleryActive' = "All")

C12_Witness ==
    /\ galleryActive = "Coding"
    /\ Len(items) = 8
    /\ items[1].tag = "Games"
    /\ items[2].tag = Undefined

(***************************************************************************)
(* Frame conditions, checked under SpecSite                                *)
(***************************************************************************)
\* C13: a step that changes the active filter leaves the photo list alone, a
\* step that changes the photo list leaves the active filter alone, neither
\* touches the playground or the background, and a step that changes the
\* playground (label, text, ticker) touches neither the gallery nor the
\* background.
C13_Frame ==
    [][/\ galleryActive' # galleryActive =>
            UNCHANGED <<items, files, created, playgroundVars, bgUrl>>
       /\ items' # items =>
            UNCHANGED <<galleryActive, playgroundVars, bgUrl>>
       /\ playgroundVars' # playgroundVars =>
            UNCHANGED <<galleryVars, bgUrl>>]_vars

C13_Witness ==
    /\ galleryActive = "Food"
    /\ Len(items) = 7 /\ items[1].tag = "Travel"
    /\ active = "Java" /\ typed = "cl" /\ live # {}
    /\ bgUrl = asset(baseUrl, "main.jpg")

(***************************************************************************)
(* A click on the active chip, checked under SpecPlayground                *)
(***************************************************************************)
\* C14: a click on the chip of the language that is already active changes
\* nothing of the reveal: the text is not reset, no effect run is scheduled,
\* and the ticker is neither cleared nor replaced.
C14_SameChipNoop ==
    [][\A lang \in Range(languages) :
          (ClickChip(lang) /\ lang = active) =>
            UNCHANGED <<active, typed, effectPending, live, effectId>>]_vars

C14_Witness ==
    /\ mounted /\ ~effectPending
    /\ active = "Matlab" /\ active \in Range(languages)
    /\ typed = "disp(\"Wel"
    /\ ENABLED ClickChip(active)
    /\ \E t \in live : t.i = 9

====
